---- MODULE Spec2Model ----
(***************************************************************************)
(* State machine of the notes page (src/notes_frontend/src/routes/index.tsx)*)
(* together with the REST backend it talks to.  Every awaited HTTP call is  *)
(* a request in flight: it is sent by the handler's first half, answered by *)
(* the backend, and its answer is applied by the handler's second half.     *)
(* The two useTask$ trackers and the useVisibleTask$ are callbacks of their *)
(* own, run by the framework after the signal write that scheduled them.    *)
(***************************************************************************)
EXTENDS Integers, Sequences, FiniteSets, TLC

\* ---------------------------------------------------------------- bounds
\* Number of HTTP requests issued in one run.
MaxReqs == 2

\* ------------------------------------------------------------- value sets
Null == "null"                 \* JS null of a string-typed signal
NoId == 0                      \* JS null of activeId (note ids are 1, 2, ...)
Tok == "tok"
User == [id |-> "u1", email |-> "a@b"]
Untitled == <<"U", "n", "t", "i", "t", "l", "e", "d">>
EmptyText == <<>>
TitleInputs == {<<" ">>, <<" ", "a">>}     \* what the user types as a title
ContentInputs == {"c"}                      \* what the user types as content
Times == {1, 2}                             \* updated_at values, as getTime()
ServerErrors == {Null, "Server error"}      \* error field of a failed result

VARIABLES
  auth_token,    \* auth.token signal
  auth_user,     \* auth.user signal: <<>> or <<user>>
  storage,       \* window.localStorage: keys auth_token, auth_user
  token,         \* derived token signal (line 22)
  tokenDirty,    \* the token tracker task is scheduled
  visiblePending,\* useVisibleTask$ has not run yet
  notes, loading, err, activeId,
  title, content,
  origin,        \* history: id of the note the editor fields were loaded from
  activeDirty,   \* the activeId tracker task is scheduled
  ov,            \* AuthOverlay signals: mode, error, loading
  inflight,      \* request number -> request / response
  nreq,          \* requests issued so far
  srvNotes, srvNextId,   \* backend store
  loadIssued,    \* history: GET /notes has been issued
  lastEvt        \* history: the response handler that made the last step, if one did

vars == <<auth_token, auth_user, storage, token, tokenDirty, visiblePending,
          notes, loading, err, activeId, title, content, origin, activeDirty,
          ov, inflight, nreq, srvNotes, srvNextId, loadIssued, lastEvt>>

authVars == <<auth_token, auth_user, storage, tokenDirty, ov>>
noteVars == <<notes, loading, err, activeId, title, content, origin, activeDirty>>
srvVars == <<srvNotes, srvNextId>>

\* ------------------------------------------------------------- helpers
Range(s) == {s[i] : i \in DOMAIN s}

IsSpace(ch) == ch = " "

RECURSIVE TrimLeft(_)
TrimLeft(s) == IF s # <<>> /\ IsSpace(Head(s)) THEN TrimLeft(Tail(s)) ELSE s

RECURSIVE TrimRight(_)
TrimRight(s) ==
  IF s # <<>> /\ IsSpace(s[Len(s)]) THEN TrimRight(SubSeq(s, 1, Len(s) - 1)) ELSE s

\* String.prototype.trim
Trim(s) == TrimRight(TrimLeft(s))

\* a || b on strings: null and "" are falsy
OrElse(a, b) == IF a = Null \/ a = "" THEN b ELSE a

\* the title sent untrimmed
InputTitleBad(t) == IF t = EmptyText THEN Untitled ELSE t

\* line 104: title.value.trim() || "Untitled"
InputTitle(t) == IF Trim(t) = EmptyText THEN Untitled ELSE Trim(t)

\* the comparator of lines 51 and 114: negative when a goes first
Cmp(a, b) == b.updated_at - a.updated_at

\* insert n into the sorted list s behind every element it does not precede
RECURSIVE InsertSorted(_, _)
InsertSorted(n, s) ==
  IF s = <<>> THEN <<n>>
  ELSE IF Cmp(n, Head(s)) < 0 THEN <<n>> \o s
  ELSE <<Head(s)>> \o InsertSorted(n, Tail(s))

\* Array.prototype.sort with Cmp: a stable sort, newest first
RECURSIVE SortByUpdated(_)
SortByUpdated(s) ==
  IF s = <<>> THEN <<>>
  ELSE InsertSorted(s[Len(s)], SortByUpdated(SubSeq(s, 1, Len(s) - 1)))

\* a filter that keeps what it should drop
FilterBad(s, id) == s

\* notes.value.filter((n) => n.id !== id)
RECURSIVE Filter(_, _)
Filter(s, id) ==
  IF s = <<>> THEN <<>>
  ELSE IF Head(s).id # id THEN <<Head(s)>> \o Filter(Tail(s), id)
  ELSE Filter(Tail(s), id)

\* notes.value.find((n0) => n0.id === id): <<>> or <<first match>>
RECURSIVE Find(_, _)
Find(s, id) ==
  IF s = <<>> THEN <<>>
  ELSE IF Head(s).id = id THEN <<Head(s)>> ELSE Find(Tail(s), id)

MapUpdated(s, u) == [i \in DOMAIN s |-> IF s[i].id = u.id THEN u ELSE s[i]]

\* the new note put behind the list instead of in front
PrependBad(d, s) == s \o <<d>>

\* line 93: [res.data!, ...notes.value]
Prepend(d, s) == <<d>> \o s

\* ---------------------------------------------------------- HTTP client
\* A request as issued by api.get / api.post / api.put / api.del.
Req(op, id, t, c) ==
  [op |-> op, id |-> id, title |-> t, content |-> c,
   stage |-> "sent", ok |-> FALSE, data |-> <<>>, error |-> Null]

\* The uniform {ok, data?, error?} result, attached to the request.
Answer(r, ok, data, error) ==
  [r EXCEPT !.stage = "resp", !.ok = ok, !.data = data, !.error = error]

\* A request caused by a click.  MaxReqs bounds the requests of one run; one of
\* them is kept for the page's own GET /notes until the visible task has run.
Send(r) ==
  /\ nreq + (IF visiblePending THEN 1 ELSE 0) < MaxReqs
  /\ nreq' = nreq + 1
  /\ inflight' = inflight @@ ((nreq + 1) :> r)

\* The request of loadNotes$, issued from the visible task.
SendLoad(r) ==
  /\ nreq' = nreq + 1
  /\ inflight' = inflight @@ ((nreq + 1) :> r)

Drop(n) == inflight' = [m \in DOMAIN inflight \ {n} |-> inflight[m]]

Answered(n, op) ==
  /\ n \in DOMAIN inflight
  /\ inflight[n].stage = "resp"
  /\ inflight[n].op = op

\* ------------------------------------------------------------- backend
SrvIds == {srvNotes[i].id : i \in DOMAIN srvNotes}

\* Any endpoint may fail: the result then carries ok = false and maybe an error.
ServerFail(n) ==
  /\ n \in DOMAIN inflight /\ inflight[n].stage = "sent"
  /\ \E e \in ServerErrors :
       inflight' = [inflight EXCEPT ![n] = Answer(@, FALSE, <<>>, e)]
  /\ lastEvt' = "none"
  /\ UNCHANGED <<srvVars, authVars, noteVars, token, visiblePending, nreq,
                 loadIssued>>

\* POST /auth/login, POST /auth/register -> {token, user}; or a body-less 2xx
ServerAuth(n) ==
  /\ n \in DOMAIN inflight /\ inflight[n].stage = "sent"
  /\ inflight[n].op \in {"POST /auth/login", "POST /auth/register"}
  /\ \E d \in {<<>>, <<[token |-> Tok, user |-> User]>>} :
       inflight' = [inflight EXCEPT ![n] = Answer(@, TRUE, d, Null)]
  /\ lastEvt' = "none"
  /\ UNCHANGED <<srvVars, authVars, noteVars, token, visiblePending, nreq,
                 loadIssued>>

\* GET /notes -> Note[]
ServerList(n) ==
  /\ n \in DOMAIN inflight /\ inflight[n].stage = "sent"
  /\ inflight[n].op = "GET /notes"
  /\ inflight' = [inflight EXCEPT ![n] = Answer(@, TRUE, srvNotes, Null)]
  /\ lastEvt' = "none"
  /\ UNCHANGED <<srvVars, authVars, noteVars, token, visiblePending, nreq,
                 loadIssued>>

\* POST /notes {title, content} -> Note, with a fresh id and a server timestamp
ServerCreate(n) ==
  /\ n \in DOMAIN inflight /\ inflight[n].stage = "sent"
  /\ inflight[n].op = "POST /notes"
  /\ \E ts \in Times :
       LET note == [id |-> srvNextId, title |-> inflight[n].title,
                    content |-> inflight[n].content, updated_at |-> ts]
       IN /\ srvNotes' = Append(srvNotes, note)
          /\ srvNextId' = srvNextId + 1
          /\ inflight' = [inflight EXCEPT ![n] = Answer(@, TRUE, <<note>>, Null)]
  /\ lastEvt' = "none"
  /\ UNCHANGED <<authVars, noteVars, token, visiblePending, nreq, loadIssued>>

\* PUT /notes/:id {title, content} -> Note
ServerUpdate(n) ==
  /\ n \in DOMAIN inflight /\ inflight[n].stage = "sent"
  /\ inflight[n].op = "PUT /notes/:id"
  /\ inflight[n].id \in SrvIds
  /\ \E ts \in Times :
       LET note == [id |-> inflight[n].id, title |-> inflight[n].title,
                    content |-> inflight[n].content, updated_at |-> ts]
       IN /\ srvNotes' = MapUpdated(srvNotes, note)
          /\ inflight' = [inflight EXCEPT ![n] = Answer(@, TRUE, <<note>>, Null)]
  /\ lastEvt' = "none"
  /\ UNCHANGED <<srvNextId, authVars, noteVars, token, visiblePending, nreq,
                 loadIssued>>

\* DELETE /notes/:id -> 204 No Content
ServerDelete(n) ==
  /\ n \in DOMAIN inflight /\ inflight[n].stage = "sent"
  /\ inflight[n].op = "DELETE /notes/:id"
  /\ inflight[n].id \in SrvIds
  /\ srvNotes' = Filter(srvNotes, inflight[n].id)
  /\ inflight' = [inflight EXCEPT ![n] = Answer(@, TRUE, <<>>, Null)]
  /\ lastEvt' = "none"
  /\ UNCHANGED <<srvNextId, authVars, noteVars, token, visiblePending, nreq,
                 loadIssued>>

\* ------------------------------------------------------- failure messages
\* a failed load that reports nothing
LoadErrorBad(e) == Null

LoadError(e) == OrElse(e, "Failed to load notes")
CreateError(e) == OrElse(e, "Failed to create note")
SaveError(e) == OrElse(e, "Failed to save note")
DeleteError(e) == OrElse(e, "Failed to delete note")
\* the server's error text dropped
AuthErrorBad(e) == "Authentication failed"

AuthError(e) == OrElse(e, "Authentication failed")

\* a signal write schedules its tracker only when the value changes
Changed(old, new) == old # new

\* ------------------------------------------------------------ the page
\* The sidebar and the editor take clicks and input only while a token is held:
\* without one the auth overlay (line 161, fixed, inset 0) covers the page.
\* lines 40-44: loadNotes$ up to its await
LoadNotesCall ==
  IF token = Null \/ token = ""
  THEN UNCHANGED <<loading, err, inflight, nreq, loadIssued>>
  ELSE /\ loading' = TRUE
       /\ err' = Null
       /\ SendLoad(Req("GET /notes", NoId, EmptyText, ""))
       /\ loadIssued' = TRUE

\* lines 62-66: useVisibleTask$, once, when the page becomes visible
VisibleTask ==
  /\ visiblePending
  /\ visiblePending' = FALSE
  /\ IF auth_token # Null
     THEN LoadNotesCall
     ELSE UNCHANGED <<loading, err, inflight, nreq, loadIssued>>
  /\ lastEvt' = "none"
  /\ UNCHANGED <<authVars, token, notes, activeId, title, content, origin,
                 activeDirty, srvVars>>

\* lines 23-26: the token tracker
TokenTask ==
  /\ tokenDirty
  /\ tokenDirty' = FALSE
  /\ token' = auth_token
  /\ lastEvt' = "none"
  /\ UNCHANGED <<auth_token, auth_user, storage, ov, visiblePending, noteVars,
                 inflight, nreq, srvVars, loadIssued>>

\* lines 69-79: the activeId tracker
ActiveIdTask ==
  /\ activeDirty
  /\ activeDirty' = FALSE
  /\ LET n == Find(notes, activeId)
     IN IF n # <<>>
        THEN /\ title' = n[1].title
             /\ content' = n[1].content
             /\ origin' = n[1].id
        ELSE /\ title' = EmptyText
             /\ content' = ""
             /\ origin' = NoId
  /\ lastEvt' = "none"
  /\ UNCHANGED <<authVars, token, visiblePending, notes, loading, err, activeId,
                 inflight, nreq, srvVars, loadIssued>>

\* lines 45-59: loadNotes$ after its await
LoadNotesResp(n) ==
  /\ Answered(n, "GET /notes")
  /\ Drop(n)
  /\ loading' = FALSE
  /\ LET res == inflight[n]
     IN IF ~res.ok
        THEN /\ err' = LoadError(res.error)
             /\ lastEvt' = "loadFail"
             /\ UNCHANGED <<notes, activeId, title, content, origin, activeDirty>>
        ELSE /\ notes' = SortByUpdated(res.data)
             /\ lastEvt' = "loadOk"
             /\ err' = err
             /\ IF activeId = NoId /\ notes' # <<>>
                THEN /\ activeId' = notes'[1].id
                     /\ title' = notes'[1].title
                     /\ content' = notes'[1].content
                     /\ origin' = notes'[1].id
                     /\ activeDirty' = TRUE
                ELSE UNCHANGED <<activeId, title, content, origin, activeDirty>>
  /\ UNCHANGED <<authVars, token, visiblePending, nreq, srvVars, loadIssued>>

\* lines 228-230 (and selectNote$, lines 82-84): click on a listed note
SelectNote(id) ==
  /\ auth_token # Null
  /\ id \in {notes[i].id : i \in DOMAIN notes}
  /\ activeId' = id
  /\ activeDirty' = (activeDirty \/ Changed(activeId, id))
  /\ lastEvt' = "none"
  /\ UNCHANGED <<authVars, token, visiblePending, notes, loading, err, title,
                 content, origin, inflight, nreq, srvVars, loadIssued>>

\* lines 269-271: typing in the title input
EditTitle(t) ==
  /\ auth_token # Null
  /\ title' = t
  /\ lastEvt' = "none"
  /\ UNCHANGED <<authVars, token, visiblePending, notes, loading, err, activeId,
                 content, origin, activeDirty, inflight, nreq, srvVars,
                 loadIssued>>

\* lines 277-279: typing in the textarea
EditContent(c) ==
  /\ auth_token # Null
  /\ content' = c
  /\ lastEvt' = "none"
  /\ UNCHANGED <<authVars, token, visiblePending, notes, loading, err, activeId,
                 title, origin, activeDirty, inflight, nreq, srvVars,
                 loadIssued>>

\* lines 86-88: newNote$ up to its await
NewNoteCall == Send(Req("POST /notes", NoId, Untitled, ""))

\* New / + New note / fab buttons
NewNote ==
  /\ auth_token # Null
  /\ NewNoteCall
  /\ lastEvt' = "none"
  /\ UNCHANGED <<authVars, token, visiblePending, noteVars, srvVars, loadIssued>>

\* lines 89-96: newNote$ after its await
NewNoteResp(n) ==
  /\ Answered(n, "POST /notes")
  /\ Drop(n)
  /\ LET res == inflight[n]
     IN IF ~res.ok
        THEN /\ err' = CreateError(res.error)
             /\ lastEvt' = "newFail"
             /\ UNCHANGED <<notes, activeId, title, content, origin, activeDirty>>
        ELSE /\ notes' = Prepend(res.data[1], notes)
             /\ activeId' = res.data[1].id
             /\ activeDirty' = (activeDirty \/ Changed(activeId, res.data[1].id))
             /\ title' = res.data[1].title
             /\ content' = res.data[1].content
             /\ origin' = res.data[1].id
             /\ lastEvt' = "newOk"
             /\ err' = err
  /\ UNCHANGED <<authVars, token, visiblePending, loading, nreq, srvVars,
                 loadIssued>>

\* lines 99-105: saveNote$ up to its await (Save button)
SaveNote ==
  /\ auth_token # Null
  /\ IF activeId = NoId
     THEN NewNoteCall
     ELSE Send(Req("PUT /notes/:id", activeId, InputTitle(title), content))
  /\ lastEvt' = "none"
  /\ UNCHANGED <<authVars, token, visiblePending, noteVars, srvVars, loadIssued>>

\* lines 106-116: saveNote$ after its await
SaveNoteResp(n) ==
  /\ Answered(n, "PUT /notes/:id")
  /\ Drop(n)
  /\ LET res == inflight[n]
     IN IF ~res.ok
        THEN /\ err' = SaveError(res.error)
             /\ lastEvt' = "saveFail"
             /\ UNCHANGED <<notes, title, content, origin>>
        ELSE /\ notes' = SortByUpdated(MapUpdated(notes, res.data[1]))
             /\ title' = res.data[1].title
             /\ content' = res.data[1].content
             /\ origin' = res.data[1].id
             /\ lastEvt' = "saveOk"
             /\ err' = err
  /\ UNCHANGED <<authVars, token, visiblePending, loading, activeId, activeDirty,
                 nreq, srvVars, loadIssued>>

\* lines 119-122: deleteNote$ up to its await (Delete button)
DeleteNote ==
  /\ auth_token # Null
  /\ IF activeId = NoId
     THEN UNCHANGED <<inflight, nreq>>
     ELSE Send(Req("DELETE /notes/:id", activeId, EmptyText, ""))
  /\ lastEvt' = "none"
  /\ UNCHANGED <<authVars, token, visiblePending, noteVars, srvVars, loadIssued>>

\* lines 123-137: deleteNote$ after its await
DeleteNoteResp(n) ==
  /\ Answered(n, "DELETE /notes/:id")
  /\ Drop(n)
  /\ LET res == inflight[n]
     IN IF ~res.ok
        THEN /\ err' = DeleteError(res.error)
             /\ lastEvt' = "deleteFail"
             /\ UNCHANGED <<notes, activeId, title, content, origin, activeDirty>>
        ELSE /\ notes' = Filter(notes, res.id)
             /\ lastEvt' = "deleteOk"
             /\ err' = err
             /\ IF notes' # <<>>
                THEN /\ activeId' = notes'[1].id
                     /\ title' = notes'[1].title
                     /\ content' = notes'[1].content
                     /\ origin' = notes'[1].id
                ELSE /\ activeId' = NoId
                     /\ title' = EmptyText
                     /\ content' = ""
                     /\ origin' = NoId
             /\ activeDirty' = (activeDirty \/ Changed(activeId, activeId'))
  /\ UNCHANGED <<authVars, token, visiblePending, loading, nreq, srvVars,
                 loadIssued>>

\* -------------------------------------------------------- auth overlay
OverlayInit == [mode |-> "login", error |-> Null, loading |-> FALSE]

\* JSON.stringify(user), as the list of its keys and values
Stringify(u) == <<"id", u.id, "email", u.email>>

NoStorage == [auth_token |-> Null, auth_user |-> <<>>]

\* line 161: the overlay is rendered while there is no token
OverlayShown == auth_token = Null

\* lines 358: switch between login and register
ToggleMode ==
  /\ OverlayShown
  /\ ov' = [ov EXCEPT !.mode = IF @ = "login" THEN "register" ELSE "login"]
  /\ lastEvt' = "none"
  /\ UNCHANGED <<auth_token, auth_user, storage, tokenDirty, token,
                 visiblePending, noteVars, inflight, nreq, srvVars, loadIssued>>

\* lines 296-301: submit$ up to its await; the button is disabled while loading
Submit ==
  /\ OverlayShown
  /\ ~ov.loading
  /\ ov' = [ov EXCEPT !.loading = TRUE, !.error = Null]
  /\ Send(Req(IF ov.mode = "login" THEN "POST /auth/login"
              ELSE "POST /auth/register", NoId, EmptyText, ""))
  /\ lastEvt' = "none"
  /\ UNCHANGED <<auth_token, auth_user, storage, tokenDirty, token,
                 visiblePending, noteVars, srvVars, loadIssued>>

\* lines 302-315: submit$ after its await
SubmitResp(n) ==
  /\ \/ Answered(n, "POST /auth/login")
     \/ Answered(n, "POST /auth/register")
  /\ Drop(n)
  /\ LET res == inflight[n]
     IN IF ~res.ok \/ res.data = <<>>
        THEN /\ ov' = [ov EXCEPT !.loading = FALSE, !.error = AuthError(res.error)]
             /\ lastEvt' = "authFail"
             /\ UNCHANGED <<auth_token, auth_user, storage, tokenDirty>>
        ELSE /\ auth_token' = res.data[1].token
             /\ auth_user' = <<res.data[1].user>>
             /\ storage' = [auth_token |-> res.data[1].token,
                            auth_user |-> Stringify(res.data[1].user)]
             /\ tokenDirty' = (tokenDirty \/ Changed(auth_token, res.data[1].token))
             /\ ov' = [ov EXCEPT !.loading = FALSE]
             /\ lastEvt' = "authOk"
  /\ UNCHANGED <<token, visiblePending, noteVars, nreq, srvVars, loadIssued>>

\* ------------------------------------------------------ initial states
\* What the backend holds when the page opens.
SrvNote(i, ts) == [id |-> i, title |-> <<"a">>, content |-> "c", updated_at |-> ts]
InitialStores == {<<SrvNote(1, 1)>>, <<SrvNote(1, 1), SrvNote(2, 2)>>}

\* useAuthProvider: the session is restored from local storage, if it is there
Init ==
  /\ storage \in {NoStorage, [auth_token |-> Tok, auth_user |-> Stringify(User)]}
  /\ auth_token = storage.auth_token
  /\ auth_user = IF storage.auth_token = Null THEN <<>> ELSE <<User>>
  /\ token = auth_token
  /\ tokenDirty = FALSE
  /\ visiblePending = TRUE
  /\ notes = <<>> /\ loading = FALSE /\ err = Null /\ activeId = NoId
  /\ title = EmptyText /\ content = ""
  /\ origin = NoId /\ activeDirty = FALSE
  /\ ov = OverlayInit
  /\ inflight = <<>> /\ nreq = 0
  /\ srvNotes \in InitialStores
  /\ srvNextId = Len(srvNotes) + 1
  /\ loadIssued = FALSE
  /\ lastEvt = "none"

Requests == 1..MaxReqs
NoteIds == 1..(2 + MaxReqs)

Next ==
  \/ VisibleTask
  \/ TokenTask
  \/ ActiveIdTask
  \/ \E id \in NoteIds : SelectNote(id)
  \/ \E t \in TitleInputs : EditTitle(t)
  \/ \E c \in ContentInputs : EditContent(c)
  \/ NewNote
  \/ SaveNote
  \/ DeleteNote
  \/ ToggleMode
  \/ Submit
  \/ \E n \in Requests :
       \/ ServerFail(n)
       \/ ServerAuth(n)
       \/ ServerList(n)
       \/ ServerCreate(n)
       \/ ServerUpdate(n)
       \/ ServerDelete(n)
       \/ LoadNotesResp(n)
       \/ NewNoteResp(n)
       \/ SaveNoteResp(n)
       \/ DeleteNoteResp(n)
       \/ SubmitResp(n)

Spec == Init /\ [][Next]_vars

\* The framework runs a scheduled task, the backend answers a request and the
\* client applies an answer: none of these waits for the user.
System ==
  \/ VisibleTask
  \/ TokenTask
  \/ ActiveIdTask
  \/ \E n \in Requests :
       \/ ServerFail(n) \/ ServerAuth(n) \/ ServerList(n) \/ ServerCreate(n)
       \/ ServerUpdate(n) \/ ServerDelete(n)
       \/ LoadNotesResp(n) \/ NewNoteResp(n) \/ SaveNoteResp(n)
       \/ DeleteNoteResp(n) \/ SubmitResp(n)

FairSpec == Init /\ [][Next]_vars /\ WF_vars(System)

\* ------------------------------------------------------------- claims
Ids(s) == {s[i].id : i \in DOMAIN s}

\* The answer to request n is applied by this step.
Applied(n, ops) ==
  /\ n \in DOMAIN inflight
  /\ inflight[n].stage = "resp"
  /\ inflight[n].op \in ops
  /\ n \notin DOMAIN inflight'

\* Request n is issued by this step.
Issued(n, op) ==
  /\ n \in DOMAIN inflight' \ DOMAIN inflight
  /\ inflight'[n].op = op

NoteOps == {"GET /notes", "POST /notes", "PUT /notes/:id", "DELETE /notes/:id"}
AuthOps == {"POST /auth/login", "POST /auth/register"}

\* C1: the notes list is sorted by updated_at, newest first, in every state
\* (so also after every applied load, create and update answer).
C1_SortedDescending ==
  \A i \in 1..(Len(notes) - 1) : notes[i].updated_at >= notes[i + 1].updated_at

\* C2: a successful delete removes the note it was issued for from the list and
\* makes the first remaining note active and loaded in the editor, or clears
\* the selection and the editor when none remains; a DELETE is only issued for
\* the active note, and deleteNote$ with no active note changes nothing.
C2_DeletePromotesFirst ==
  [][ /\ \A n \in DOMAIN inflight :
           (Applied(n, {"DELETE /notes/:id"}) /\ inflight[n].ok) =>
             /\ inflight[n].id \notin Ids(notes')
             /\ IF notes' # <<>>
                THEN /\ activeId' = notes'[1].id
                     /\ title' = notes'[1].title
                     /\ content' = notes'[1].content
                ELSE /\ activeId' = NoId
                     /\ title' = EmptyText
                     /\ content' = ""
      /\ \A n \in Requests :
           Issued(n, "DELETE /notes/:id") =>
             activeId # NoId /\ inflight'[n].id = activeId
      /\ (DeleteNote /\ activeId = NoId) =>
           UNCHANGED <<authVars, token, visiblePending, noteVars, inflight, nreq,
                       srvVars>>
    ]_vars

C2_Witness ==
  /\ lastEvt = "deleteOk"
  /\ notes # <<>>
  /\ activeId = notes[1].id /\ title = notes[1].title /\ content = notes[1].content

\* C3: a successful create puts the returned note in front of the list as it
\* was, makes it the active note and loads it into the editor.
C3_CreatePrepends ==
  [][ \A n \in DOMAIN inflight :
        (Applied(n, {"POST /notes"}) /\ inflight[n].ok) =>
          LET d == inflight[n].data[1]
          IN /\ notes' # <<>> /\ notes'[1] = d
             /\ Tail(notes') = notes
             /\ activeId' = d.id
             /\ title' = d.title /\ content' = d.content
    ]_vars

C3_Witness ==
  /\ lastEvt = "newOk"
  /\ Len(notes) >= 2
  /\ activeId = notes[1].id /\ title = Untitled

\* C4: a failed login or register (ok false, or no data) leaves token and user
\* unset, writes nothing to local storage, ends loading and shows the server's
\* error text, or "Authentication failed" when there is none.
C4_AuthFailure ==
  [][ \A n \in DOMAIN inflight :
        (Applied(n, AuthOps) /\ (~inflight[n].ok \/ inflight[n].data = <<>>)) =>
          /\ auth_token = Null /\ auth_token' = Null
          /\ auth_user = <<>> /\ auth_user' = <<>>
          /\ storage' = storage /\ storage = NoStorage
          /\ ov'.loading = FALSE
          /\ ov'.error = IF inflight[n].error \in ServerErrors \ {Null, ""}
                         THEN inflight[n].error
                         ELSE "Authentication failed"
    ]_vars

C4_Witness ==
  /\ lastEvt = "authFail"
  /\ ov.error = "Server error"
  /\ auth_token = Null /\ ~ov.loading

\* C5: a failed answer to a notes request sets err to the server's error or the
\* operation's default message, leaves the list, the selection and the editor
\* as they were, and issues no further request.
DefaultMessage(op) ==
  CASE op = "GET /notes" -> "Failed to load notes"
    [] op = "POST /notes" -> "Failed to create note"
    [] op = "PUT /notes/:id" -> "Failed to save note"
    [] op = "DELETE /notes/:id" -> "Failed to delete note"

C5_FailureKeepsState ==
  [][ \A n \in DOMAIN inflight :
        (Applied(n, NoteOps) /\ ~inflight[n].ok) =>
          /\ err' # Null
          /\ err' = IF inflight[n].error \in ServerErrors \ {Null, ""}
                    THEN inflight[n].error
                    ELSE DefaultMessage(inflight[n].op)
          /\ UNCHANGED <<notes, activeId, title, content>>
          /\ DOMAIN inflight' \subseteq DOMAIN inflight
          /\ nreq' = nreq
    ]_vars

C5_Witness ==
  /\ lastEvt \in {"loadFail", "newFail", "saveFail", "deleteFail"}
  /\ err # Null
  /\ notes # <<>> /\ activeId # NoId

\* C6: whenever no tracker run is pending, the editor fields were loaded from
\* the note activeId names (or from nothing when activeId is null).  Stated for
\* the states where activeId is null or names a listed note, so that a failure
\* of it does not rest on a selection that has left the list.
C6_EditorShowsActive ==
  (~activeDirty /\ (activeId = NoId \/ activeId \in Ids(notes))) => origin = activeId

\* C7: once the session holds a token, GET /notes is eventually issued.
C7_LoadsWhenAuthenticated == (auth_token # Null) ~> loadIssued

\* C8: a successful save replaces the entries with the returned note's id by
\* the returned note and keeps every other entry, the ids, the length and the
\* selection; the PUT it answers was issued for the active note with the
\* trimmed title (or "Untitled") and the content of the editor.
Count(s, x) == Cardinality({i \in DOMAIN s : s[i] = x})

C9_ActiveIsListed == activeId = NoId \/ activeId \in Ids(notes)

\* C10: no two entries of the notes list have the same id.
C10_UniqueIds ==
  \A i, j \in DOMAIN notes : i # j => notes[i].id # notes[j].id

====
